---- MODULE Spec2Model ----
(***************************************************************************)
(* Model of the backtest simulator of trading-bot (backtest.py).           *)
(*                                                                         *)
(* Python floats are modelled as exact rationals [n |-> numerator,         *)
(* d |-> denominator > 0] in lowest terms, so that equality of two         *)
(* amounts is equality of records.  Rounding of IEEE doubles is not        *)
(* modelled.                                                               *)
(***************************************************************************)
EXTENDS Integers, Sequences, FiniteSets

\* ------------------------------------------------------------------------
\* Bounds of the model
\* ------------------------------------------------------------------------
MaxCandles == 4

\* ------------------------------------------------------------------------
\* Rational arithmetic (the float operators +, -, *, /, <, >= of Python)
\* ------------------------------------------------------------------------
Abs(x) == IF x < 0 THEN -x ELSE x

RECURSIVE GCD(_, _)
GCD(a, b) == IF b = 0 THEN a ELSE GCD(b, a % b)

LCM(a, b) == (a \div GCD(a, b)) * b

Norm(n, d) ==
    LET g == GCD(Abs(n), d)
    IN  IF n = 0 THEN [n |-> 0, d |-> 1] ELSE [n |-> n \div g, d |-> d \div g]

Rat(k) == [n |-> k, d |-> 1]

Frac(a, b) == Norm(a, b)

Zero == Rat(0)

RAdd(x, y) ==
    LET l == LCM(x.d, y.d)
    IN  Norm(x.n * (l \div x.d) + y.n * (l \div y.d), l)

RNeg(x) == [n |-> -x.n, d |-> x.d]

RSub(x, y) == RAdd(x, RNeg(y))

RMul(x, y) ==
    LET g1 == IF x.n = 0 THEN y.d ELSE GCD(Abs(x.n), y.d)
        g2 == IF y.n = 0 THEN x.d ELSE GCD(Abs(y.n), x.d)
    IN  Norm((x.n \div g1) * (y.n \div g2), (x.d \div g2) * (y.d \div g1))

\* x / y for y # 0
RDiv(x, y) ==
    LET inv == IF y.n < 0 THEN [n |-> -y.d, d |-> -y.n] ELSE [n |-> y.d, d |-> y.n]
    IN  RMul(x, inv)

RLt(x, y) ==
    LET l == LCM(x.d, y.d)
    IN  x.n * (l \div x.d) < y.n * (l \div y.d)

RLe(x, y) == x = y \/ RLt(x, y)

RGt(x, y) == RLt(y, x)

RGe(x, y) == RLe(y, x)

RMax(x, y) == IF RLt(x, y) THEN y ELSE x

RMin(x, y) == IF RLt(y, x) THEN y ELSE x

\* ------------------------------------------------------------------------
\* Inputs: constructor arguments and the signal-annotated candle frame
\* ------------------------------------------------------------------------
\* Backtester(initial_balance, trade_amount, fee_rate)
InitialBalances == {Rat(50), Rat(100), Rat(1000)}
TradeAmounts    == {Rat(100)}
FeeRates        == {Frac(1, 10)}

\* close prices of the candles
Prices == {10, 20}

\* value of self.entry_time before the first entry (the attribute is only
\* created by the buy branch)
NoTime == -1

Cells == [close : Prices, buy_signal : {0, 1}, sell_signal : {0, 1}]

\* the frame of n rows built from the cells c; row k carries the k-th
\* timestamp of a gap-free, strictly increasing series
Frame(n, c) ==
    [k \in 1..n |-> [datetime    |-> k,
                     close       |-> Rat(c[k].close),
                     buy_signal  |-> c[k].buy_signal,
                     sell_signal |-> c[k].sell_signal]]

\* ------------------------------------------------------------------------
\* State
\* ------------------------------------------------------------------------
VARIABLES
    initial_balance, trade_amount, fee_rate,   \* configuration fields
    balance, position_size, entry_price, entry_time,
    trades, equity_curve,
    df,          \* argument of run
    i,           \* 1-based index of the row the loop processes next
    pc,          \* "init" | "loop" | "done" | "crashed"
    report,      \* what _print_results logged
    entries,     \* history: number of times the buy branch was taken
    sdf,         \* TradingStrategy: the frame analyze works on
    spc,         \* TradingStrategy: position inside analyze
    candles,     \* indicator functions: the OHLC input series
    period,      \* indicator functions: the period argument
    ind,         \* indicator functions: the series returned
    dry_run,     \* OrderExecutor: self.dry_run
    exchange_orders,  \* OrderExecutor: the calls of exchange.create_order
    order,       \* OrderExecutor: what the last execute_trade returned
    executions,  \* history: the arguments of the execute_trade calls
    current_holding_symbol,  \* run_bot: the symbol held, or None
    cycle,       \* run_bot: number of the loop cycle in progress
    bpc,         \* run_bot: "idle" | "running" | "crashed"
    requests     \* history: the order requests run_bot made

cfg  == <<initial_balance, trade_amount, fee_rate>>

backtestVars ==
    <<initial_balance, trade_amount, fee_rate, balance, position_size,
      entry_price, entry_time, trades, equity_curve, df, i, pc, report,
      entries>>

strategyVars == <<sdf, spc>>

indicatorVars == <<candles, period, ind>>

executorVars == <<dry_run, exchange_orders, order, executions>>

botVars == <<current_holding_symbol, cycle, bpc, requests>>

vars == <<backtestVars, strategyVars, indicatorVars, executorVars, botVars>>

\* no TradingStrategy call is in progress
StrategyIdle ==
    /\ sdf = [cols |-> {}, rows |-> <<>>]
    /\ spc = "idle"

\* no indicator function has been called
IndicatorIdle ==
    /\ candles = <<>>
    /\ period = 1
    /\ ind = [name |-> "none", values |-> <<>>]

\* Python's None
None == [kind |-> "None"]

\* no OrderExecutor is in use
ExecutorIdle ==
    /\ dry_run = TRUE
    /\ exchange_orders = <<>>
    /\ order = None
    /\ executions = <<>>

\* run_bot has not been called
BotIdle ==
    /\ current_holding_symbol = None
    /\ cycle = 0
    /\ bpc = "idle"
    /\ requests = <<>>

NoReport == [kind |-> "none"]

Init ==
    /\ initial_balance \in InitialBalances
    /\ trade_amount \in TradeAmounts
    /\ fee_rate \in FeeRates
    /\ balance = initial_balance
    /\ position_size = Zero
    /\ entry_price = Zero
    /\ entry_time = NoTime
    /\ trades = <<>>
    /\ equity_curve = <<>>
    /\ \E n \in 0..MaxCandles : \E c \in [1..n -> Cells] : df = Frame(n, c)
    /\ i = 1
    /\ pc = "init"
    /\ report = NoReport
    /\ entries = 0
    /\ StrategyIdle
    /\ IndicatorIdle
    /\ ExecutorIdle
    /\ BotIdle

\* ------------------------------------------------------------------------
\* Backtester.run: the pieces of the loop body
\* ------------------------------------------------------------------------
One     == Rat(1)
Hundred == Rat(100)

\* mutant: the sample is taken after the row's signals were acted upon
CurrentEquityAfterTrade(row) ==
    IF row.buy_signal = 1 /\ position_size = Zero /\ RGe(balance, trade_amount)
    THEN RAdd(RSub(balance, trade_amount),
              RMul(RDiv(RSub(trade_amount, RMul(trade_amount, fee_rate)),
                        row.close),
                   row.close))
    ELSE IF row.sell_signal = 1 /\ RGt(position_size, Zero)
    THEN RAdd(balance,
              RSub(RMul(position_size, row.close),
                   RMul(RMul(position_size, row.close), fee_rate)))
    ELSE RAdd(balance, RMul(position_size, row.close))

\* current_equity = self.balance + (self.position_size * current_price)
CurrentEquity(row) == RAdd(balance, RMul(position_size, row.close))

\* mutant: the entry guard without the balance check
BuyConditionNoBalanceCheck(row) ==
    /\ row.buy_signal = 1
    /\ position_size = Zero

\* mutant: the entry guard without the check that no position is open
BuyConditionNoFlatCheck(row) ==
    /\ row.buy_signal = 1
    /\ RGe(balance, trade_amount)

\* if row['buy_signal'] == 1 and self.position_size == 0
\*    and self.balance >= self.trade_amount
BuyCondition(row) ==
    /\ row.buy_signal = 1
    /\ position_size = Zero
    /\ RGe(balance, trade_amount)

\* mutant: an exit guard that looks at the signal only
SellConditionSignalOnly(row) == row.sell_signal = 1

\* elif row['sell_signal'] == 1 and self.position_size > 0
SellCondition(row) ==
    /\ ~BuyCondition(row)
    /\ row.sell_signal = 1
    /\ RGt(position_size, Zero)

\* fee = trade_amount * fee_rate; invest_amount = trade_amount - fee
InvestAmount == RSub(trade_amount, RMul(trade_amount, fee_rate))

\* self.position_size = invest_amount / current_price
BoughtSize(row) == RDiv(InvestAmount, row.close)

\* mutant: the fee is charged against cash on top of trade_amount
BalanceAfterBuyFeeOnTop ==
    RSub(RSub(balance, trade_amount), RMul(trade_amount, fee_rate))

\* self.balance -= self.trade_amount
BalanceAfterBuy == RSub(balance, trade_amount)

\* mutant: no fee is charged on the exit
NetRevenueNoFee(price) == RMul(position_size, price)

\* gross_revenue = position_size * price; fee = gross_revenue * fee_rate;
\* net_revenue = gross_revenue - fee
NetRevenue(price) ==
    LET gross_revenue == RMul(position_size, price)
        fee           == RMul(gross_revenue, fee_rate)
    IN  RSub(gross_revenue, fee)

\* mutant: profit measured against the invested amount net of the entry fee
ProfitAmountNetOfFee(price) == RSub(NetRevenue(price), InvestAmount)

\* profit_amount = net_revenue - self.trade_amount
ProfitAmount(price) == RSub(NetRevenue(price), trade_amount)

\* profit_pct = (profit_amount / self.trade_amount) * 100
ProfitPct(price) == RMul(RDiv(ProfitAmount(price), trade_amount), Hundred)

\* the dict appended to self.trades
TradeRecord(row) ==
    [entry_time    |-> entry_time,
     exit_time     |-> row.datetime,
     entry_price   |-> entry_price,
     exit_price    |-> row.close,
     profit_pct    |-> ProfitPct(row.close),
     profit_amount |-> ProfitAmount(row.close)]

\* ------------------------------------------------------------------------
\* Backtester._print_results
\* ------------------------------------------------------------------------
\* winning_trades = [t for t in self.trades if t['profit_pct'] > 0]
WinningTrades(tr) == { k \in 1..Len(tr) : RGt(tr[k].profit_pct, Zero) }

\* win_rate = (len(winning_trades) / total_trades) * 100
WinRate(tr) == RMul(Frac(Cardinality(WinningTrades(tr)), Len(tr)), Hundred)

\* total_return_pct = ((balance - initial_balance) / initial_balance) * 100
TotalReturnPct(bal) ==
    RMul(RDiv(RSub(bal, initial_balance), initial_balance), Hundred)

\* roll_max = equity_s.cummax()
RECURSIVE RollMax(_, _)
RollMax(eq, t) == IF t = 1 THEN eq[1] ELSE RMax(RollMax(eq, t - 1), eq[t])

\* mutant: the decline is measured from the first sample, not the running peak
DrawdownFromFirst(eq, t) == RSub(RDiv(eq[t], eq[1]), One)

\* drawdown = equity_s / roll_max - 1.0
Drawdown(eq, t) == RSub(RDiv(eq[t], RollMax(eq, t)), One)

\* drawdown.min()
RECURSIVE MinDrawdown(_, _)
MinDrawdown(eq, t) ==
    IF t = 1 THEN Drawdown(eq, 1)
    ELSE RMin(MinDrawdown(eq, t - 1), Drawdown(eq, t))

\* mdd = drawdown.min() * 100
Mdd(eq) == RMul(MinDrawdown(eq, Len(eq)), Hundred)

\* mutant: no early return on an empty trade log
PrintResultsNoEarlyReturn(tr, bal, eq) ==
    [kind             |-> "summary",
     initial_balance  |-> initial_balance,
     final_balance    |-> bal,
     total_return_pct |-> TotalReturnPct(bal),
     total_trades     |-> Len(tr),
     win_rate         |-> WinRate(tr),
     mdd              |-> Mdd(eq)]

PrintResults(tr, bal, eq) ==
    IF Len(tr) = 0
    THEN [kind |-> "no_trades"]
    ELSE [kind             |-> "summary",
          initial_balance  |-> initial_balance,
          final_balance    |-> bal,
          total_return_pct |-> TotalReturnPct(bal),
          total_trades     |-> Len(tr),
          win_rate         |-> WinRate(tr),
          mdd              |-> Mdd(eq)]

\* ------------------------------------------------------------------------
\* Actions
\* ------------------------------------------------------------------------
\* line 31: the log line reads df['datetime'].iloc[0] and .iloc[-1]; on an
\* empty frame iloc[0] raises IndexError and run never reaches the loop
RunStart ==
    /\ pc = "init"
    /\ UNCHANGED <<strategyVars, indicatorVars, executorVars, botVars>>
    /\ Len(df) > 0
    /\ pc' = "loop"
    /\ UNCHANGED <<cfg, balance, position_size, entry_price, entry_time,
                   trades, equity_curve, df, i, report, entries>>

RunStartEmpty ==
    /\ pc = "init"
    /\ UNCHANGED <<strategyVars, indicatorVars, executorVars, botVars>>
    /\ Len(df) = 0
    /\ pc' = "crashed"
    /\ UNCHANGED <<cfg, balance, position_size, entry_price, entry_time,
                   trades, equity_curve, df, i, report, entries>>

\* one iteration of the loop, buy branch
StepBuy ==
    /\ pc = "loop"
    /\ UNCHANGED <<strategyVars, indicatorVars, executorVars, botVars>>
    /\ i <= Len(df)
    /\ BuyCondition(df[i])
    /\ equity_curve' = Append(equity_curve, CurrentEquity(df[i]))
    /\ position_size' = BoughtSize(df[i])
    /\ balance' = BalanceAfterBuy
    /\ entry_price' = df[i].close
    /\ entry_time' = df[i].datetime
    /\ entries' = entries + 1
    /\ i' = i + 1
    /\ UNCHANGED <<cfg, trades, df, pc, report>>

\* one iteration of the loop, sell branch
StepSell ==
    /\ pc = "loop"
    /\ UNCHANGED <<strategyVars, indicatorVars, executorVars, botVars>>
    /\ i <= Len(df)
    /\ SellCondition(df[i])
    /\ equity_curve' = Append(equity_curve, CurrentEquity(df[i]))
    /\ balance' = RAdd(balance, NetRevenue(df[i].close))
    /\ trades' = Append(trades, TradeRecord(df[i]))
    /\ position_size' = Zero
    /\ i' = i + 1
    /\ UNCHANGED <<cfg, entry_price, entry_time, df, pc, report, entries>>

\* one iteration of the loop, neither branch taken
StepHold ==
    /\ pc = "loop"
    /\ UNCHANGED <<strategyVars, indicatorVars, executorVars, botVars>>
    /\ i <= Len(df)
    /\ ~BuyCondition(df[i])
    /\ ~SellCondition(df[i])
    /\ equity_curve' = Append(equity_curve, CurrentEquity(df[i]))
    /\ i' = i + 1
    /\ UNCHANGED <<cfg, balance, position_size, entry_price, entry_time,
                   trades, df, pc, report, entries>>

\* if self.position_size > 0  (after the loop)
LiquidationCondition == RGt(position_size, Zero)

\* mutant: the first close instead of the last
FinalPriceFirstRow == df[1].close

\* final_price = df['close'].iloc[-1]
FinalPrice == df[Len(df)].close

\* self.balance += (gross_revenue - (gross_revenue * self.fee_rate))
LiquidatedBalance == RAdd(balance, NetRevenue(FinalPrice))

\* mutant: the liquidation appends a sample instead of overwriting the last
LiquidatedCurveAppended(newBalance) == Append(equity_curve, newBalance)

\* self.equity_curve[-1] = self.balance
LiquidatedCurve(newBalance) ==
    [equity_curve EXCEPT ![Len(equity_curve)] = newBalance]

\* lines 79-85: a position is still open after the last row; neither
\* position_size nor trades is assigned here
ForcedLiquidation ==
    /\ pc = "loop"
    /\ UNCHANGED <<strategyVars, indicatorVars, executorVars, botVars>>
    /\ i > Len(df)
    /\ LiquidationCondition
    /\ balance' = LiquidatedBalance
    /\ equity_curve' = LiquidatedCurve(LiquidatedBalance)
    /\ report' = PrintResults(trades, LiquidatedBalance,
                              LiquidatedCurve(LiquidatedBalance))
    /\ pc' = "done"
    /\ UNCHANGED <<cfg, position_size, entry_price, entry_time, trades, df,
                   i, entries>>

\* lines 79, 85: no position open after the last row
NoLiquidation ==
    /\ pc = "loop"
    /\ UNCHANGED <<strategyVars, indicatorVars, executorVars, botVars>>
    /\ i > Len(df)
    /\ ~LiquidationCondition
    /\ report' = PrintResults(trades, balance, equity_curve)
    /\ pc' = "done"
    /\ UNCHANGED <<cfg, balance, position_size, entry_price, entry_time,
                   trades, equity_curve, df, i, entries>>

Next ==
    \/ RunStart
    \/ RunStartEmpty
    \/ StepBuy
    \/ StepSell
    \/ StepHold
    \/ ForcedLiquidation
    \/ NoLiquidation

Spec == Init /\ [][Next]_vars

\* a further call run(df) on the same Backtester object: run assigns none of
\* the fields set by __init__, so the account state of the previous call is
\* the starting state of this one.  The total number of candles over all
\* calls is capped by MaxCandles.
Rerun ==
    /\ pc = "done"
    /\ UNCHANGED <<strategyVars, indicatorVars, executorVars, botVars>>
    /\ \E n \in 0..(MaxCandles - Len(equity_curve)) :
           \E c \in [1..n -> Cells] : df' = Frame(n, c)
    /\ i' = 1
    /\ pc' = "init"
    /\ UNCHANGED <<cfg, balance, position_size, entry_price, entry_time,
                   trades, equity_curve, report, entries>>

NextRerun ==
    \/ RunStart
    \/ RunStartEmpty
    \/ StepBuy
    \/ StepSell
    \/ StepHold
    \/ ForcedLiquidation
    \/ NoLiquidation
    \/ Rerun

SpecRerun == Init /\ [][NextRerun]_vars

TypeOK ==
    /\ pc \in {"init", "loop", "done", "crashed"}
    /\ i \in 1..(Len(df) + 1)
    /\ Len(equity_curve) = i - 1

\* ------------------------------------------------------------------------
\* Backtester(initial_balance, 100, 0.001).run on candles closing at 100
\* and 110
\* ------------------------------------------------------------------------
MaxRoundTripCandles == 3

RoundTripPrices == {100, 110}

RoundTripCells ==
    [close : RoundTripPrices, buy_signal : {0, 1}, sell_signal : {0, 1}]

InitRoundTrip ==
    /\ initial_balance \in {Rat(100), Rat(1000)}
    /\ trade_amount = Rat(100)
    /\ fee_rate = Frac(1, 1000)
    /\ balance = initial_balance
    /\ position_size = Zero
    /\ entry_price = Zero
    /\ entry_time = NoTime
    /\ trades = <<>>
    /\ equity_curve = <<>>
    /\ \E n \in 0..MaxRoundTripCandles :
           \E c \in [1..n -> RoundTripCells] : df = Frame(n, c)
    /\ i = 1
    /\ pc = "init"
    /\ report = NoReport
    /\ entries = 0
    /\ StrategyIdle
    /\ IndicatorIdle
    /\ ExecutorIdle
    /\ BotIdle

SpecRoundTrip == InitRoundTrip /\ [][Next]_vars

\* ------------------------------------------------------------------------
\* Backtester.run on accounts at the edges of the constructor's domain: no
\* cash, cash for exactly one trade, no fee, half of the amount as fee
\* ------------------------------------------------------------------------
InitCash ==
    /\ initial_balance \in {Rat(0), Rat(100), Rat(150)}
    /\ trade_amount = Rat(100)
    /\ fee_rate \in {Zero, Frac(1, 2)}
    /\ balance = initial_balance
    /\ position_size = Zero
    /\ entry_price = Zero
    /\ entry_time = NoTime
    /\ trades = <<>>
    /\ equity_curve = <<>>
    /\ \E n \in 0..MaxCandles : \E c \in [1..n -> Cells] : df = Frame(n, c)
    /\ i = 1
    /\ pc = "init"
    /\ report = NoReport
    /\ entries = 0
    /\ StrategyIdle
    /\ IndicatorIdle
    /\ ExecutorIdle
    /\ BotIdle

SpecCash == InitCash /\ [][Next]_vars

\* ------------------------------------------------------------------------
\* TradingStrategy (strategy.py)
\* ------------------------------------------------------------------------
MaxRows == 2

\* float('nan'): the undefined entries of an indicator column
NaN == [n |-> 0, d |-> 0]

\* float comparisons: any comparison with NaN is False
FGt(x, y) == x # NaN /\ y # NaN /\ RGt(x, y)

FLt(x, y) == x # NaN /\ y # NaN /\ RLt(x, y)

\* no Backtester is in use
BacktesterIdle ==
    /\ initial_balance = Rat(1000)
    /\ trade_amount = Rat(100)
    /\ fee_rate = Frac(1, 10)
    /\ balance = Rat(1000)
    /\ position_size = Zero
    /\ entry_price = Zero
    /\ entry_time = NoTime
    /\ trades = <<>>
    /\ equity_curve = <<>>
    /\ df = <<>>
    /\ i = 1
    /\ pc = "idle"
    /\ report = NoReport
    /\ entries = 0

\* columns of a fetched candle frame
OhlcvCols == {"timestamp", "open", "high", "low", "close", "volume"}

\* columns the signal rules read (and atr)
IndicatorCols == {"ema_short", "ema_long", "rsi", "adx", "atr"}

\* indicator values on both sides of every threshold of the rules
EmaSeq == <<Rat(1), Rat(2)>>
AdxSeq == <<NaN, Rat(25), Rat(26)>>
RsiSeq == <<Rat(39), Rat(40), Rat(70), Rat(71)>>

GridSize == Len(EmaSeq) * Len(EmaSeq) * Len(AdxSeq) * Len(RsiSeq)

\* the k-th combination of indicator values, k in 1..GridSize
GridValues(k) ==
    LET j == k - 1
    IN  [ema_short |-> EmaSeq[(j % Len(EmaSeq)) + 1],
         ema_long  |-> EmaSeq[((j \div Len(EmaSeq)) % Len(EmaSeq)) + 1],
         adx       |-> AdxSeq[((j \div (Len(EmaSeq) * Len(EmaSeq)))
                               % Len(AdxSeq)) + 1],
         rsi       |-> RsiSeq[(j \div (Len(EmaSeq) * Len(EmaSeq) * Len(AdxSeq)))
                              + 1]]

IndicatorValues == { GridValues(k) : k \in 1..GridSize }

\* row k of a fetched candle frame
OhlcvRow(k) ==
    [c \in OhlcvCols |-> IF c = "timestamp" THEN Rat(k) ELSE Rat(10)]

\* row k of a frame that already carries the indicator columns
IndicatorRow(k, v) ==
    [c \in OhlcvCols \cup IndicatorCols |->
        IF c \in OhlcvCols THEN OhlcvRow(k)[c]
        ELSE IF c = "atr" THEN Rat(1)
        ELSE v[c]]

OhlcvFrame(n) ==
    [cols |-> OhlcvCols, rows |-> [k \in 1..n |-> OhlcvRow(k)]]

IndicatorFrame(n, vs) ==
    [cols |-> OhlcvCols \cup IndicatorCols,
     rows |-> [k \in 1..n |-> IndicatorRow(k, vs[k])]]

\* the frame with one row for every combination of indicator values
GridFrame == IndicatorFrame(GridSize, [k \in 1..GridSize |-> GridValues(k)])

\* df[name] = values
SetColumn(frame, name, values) ==
    [cols |-> frame.cols \cup {name},
     rows |-> [k \in 1..Len(frame.rows) |->
                 [c \in frame.cols \cup {name} |->
                     IF c = name THEN values[k] ELSE frame.rows[k][c]]]]

\* ta.eom(high, low, volume, length=14) of the pandas_ta library: a rolling
\* indicator, undefined on its first w rows
Eom(frame, w) ==
    [k \in 1..Len(frame.rows) |-> IF k <= w THEN NaN ELSE Rat(1)]

\* mutant: the thresholds of the comments (ADX 25 or more, RSI 40 or less)
BuyRuleInclusive(row) ==
    /\ FGt(row["ema_short"], row["ema_long"])
    /\ ~FLt(row["adx"], Rat(25)) /\ row["adx"] # NaN
    /\ ~FGt(row["rsi"], Rat(40))

\* buy_condition of populate_entry_signals, for one row
BuyRule(row) ==
    /\ FGt(row["ema_short"], row["ema_long"])
    /\ FGt(row["adx"], Rat(25))
    /\ FLt(row["rsi"], Rat(40))

\* mutant: the exit rule also fires on an oversold RSI
SellRuleOversold(row) ==
    \/ FGt(row["rsi"], Rat(70))
    \/ FLt(row["rsi"], Rat(40))
    \/ FLt(row["ema_short"], row["ema_long"])

\* sell_condition of populate_exit_signals, for one row
SellRule(row) ==
    \/ FGt(row["rsi"], Rat(70))
    \/ FLt(row["ema_short"], row["ema_long"])

\* df['buy_signal'] = 0; df.loc[buy_condition, 'buy_signal'] = 1
EntrySignals(frame) ==
    [k \in 1..Len(frame.rows) |-> IF BuyRule(frame.rows[k]) THEN 1 ELSE 0]

\* df['sell_signal'] = 0; df.loc[sell_condition, 'sell_signal'] = 1
ExitSignals(frame) ==
    [k \in 1..Len(frame.rows) |-> IF SellRule(frame.rows[k]) THEN 1 ELSE 0]

\* analyze is called with a fetched candle frame, with a frame that carries
\* the indicator columns, or with the frame of all indicator combinations
InitStrategy ==
    /\ BacktesterIdle
    /\ IndicatorIdle
    /\ ExecutorIdle
    /\ BotIdle
    /\ spc = "start"
    /\ \/ \E n \in 0..MaxRows : sdf = OhlcvFrame(n)
       \/ \E n \in 0..MaxRows :
              \E vs \in [1..n -> IndicatorValues] : sdf = IndicatorFrame(n, vs)
       \/ sdf = GridFrame

\* analyze, first call: populate_indicators.  The class body defines
\* populate_indicators twice (lines 20 and 100); the later definition
\* replaces the earlier one, so this is the method that runs: it adds the
\* emv column and returns, without computing ema/rsi/adx/atr and without
\* dropna.
PopulateIndicators ==
    /\ spc = "start"
    /\ \E w \in 0..Len(sdf.rows) : sdf' = SetColumn(sdf, "emv", Eom(sdf, w))
    /\ spc' = "indicators"
    /\ UNCHANGED <<backtestVars, indicatorVars, executorVars, botVars>>

\* analyze, second call: populate_entry_signals
PopulateEntrySignals ==
    /\ spc = "indicators"
    /\ {"ema_short", "ema_long", "adx", "rsi"} \subseteq sdf.cols
    /\ sdf' = SetColumn(sdf, "buy_signal", EntrySignals(sdf))
    /\ spc' = "entry"
    /\ UNCHANGED <<backtestVars, indicatorVars, executorVars, botVars>>

\* df['ema_short'] raises KeyError when the column does not exist; the
\* buy_signal column was already assigned by line 54
PopulateEntrySignalsKeyError ==
    /\ spc = "indicators"
    /\ ~({"ema_short", "ema_long", "adx", "rsi"} \subseteq sdf.cols)
    /\ sdf' = SetColumn(sdf, "buy_signal", [k \in 1..Len(sdf.rows) |-> 0])
    /\ spc' = "crashed"
    /\ UNCHANGED <<backtestVars, indicatorVars, executorVars, botVars>>

\* analyze, third call: populate_exit_signals
PopulateExitSignals ==
    /\ spc = "entry"
    /\ sdf' = SetColumn(sdf, "sell_signal", ExitSignals(sdf))
    /\ spc' = "done"
    /\ UNCHANGED <<backtestVars, indicatorVars, executorVars, botVars>>

NextStrategy ==
    \/ PopulateIndicators
    \/ PopulateEntrySignals
    \/ PopulateEntrySignalsKeyError
    \/ PopulateExitSignals

SpecStrategy == InitStrategy /\ [][NextStrategy]_vars

\* ------------------------------------------------------------------------
\* Indicator functions (data_fetcher.py)
\* ------------------------------------------------------------------------
MaxSeries == 4
MaxPeriod == 2

\* float('inf') and its negative
PosInf == [n |-> 1, d |-> 0]
NegInf == [n |-> -1, d |-> 0]

IsFinite(x) == x.d # 0

Sign(x) == IF x.n > 0 THEN 1 ELSE IF x.n < 0 THEN -1 ELSE 0

\* float arithmetic on finite values, NaN and the infinities
FNeg(x) == [n |-> -x.n, d |-> x.d]

FAbs(x) == [n |-> Abs(x.n), d |-> x.d]

FAdd(x, y) ==
    IF x = NaN \/ y = NaN THEN NaN
    ELSE IF IsFinite(x) /\ IsFinite(y) THEN RAdd(x, y)
    ELSE IF IsFinite(x) THEN y
    ELSE IF IsFinite(y) THEN x
    ELSE IF x = y THEN x
    ELSE NaN

FSub(x, y) == FAdd(x, FNeg(y))

FMul(x, y) ==
    IF x = NaN \/ y = NaN THEN NaN
    ELSE IF IsFinite(x) /\ IsFinite(y) THEN RMul(x, y)
    ELSE IF Sign(x) * Sign(y) = 0 THEN NaN
    ELSE [n |-> Sign(x) * Sign(y), d |-> 0]

\* pandas division: x / 0 is +-inf for x # 0 and NaN for x = 0
FDiv(x, y) ==
    IF x = NaN \/ y = NaN THEN NaN
    ELSE IF IsFinite(x) /\ IsFinite(y)
         THEN IF y.n # 0 THEN RDiv(x, y)
              ELSE IF x.n = 0 THEN NaN
              ELSE [n |-> Sign(x), d |-> 0]
    ELSE IF IsFinite(x) THEN Zero
    ELSE IF IsFinite(y)
         THEN [n |-> Sign(x) * (IF y.n < 0 THEN -1 ELSE 1), d |-> 0]
    ELSE NaN

\* Series.diff(): the first entry is NaN
Diff(s) == [t \in 1..Len(s) |-> IF t = 1 THEN NaN ELSE FSub(s[t], s[t - 1])]

\* Series.shift(1)
Shift(s) == [t \in 1..Len(s) |-> IF t = 1 THEN NaN ELSE s[t - 1]]

\* Series.replace(0, float('inf'))
ReplaceZeroByInf(s) == [t \in 1..Len(s) |-> IF s[t] = Zero THEN PosInf ELSE s[t]]

\* the state of the pandas ewm kernel (adjust=False, ignore_na=False) after
\* entry t: the running mean, the weight of the old mean and the number of
\* observations seen
RECURSIVE EwmState(_, _, _)
EwmState(vals, alpha, t) ==
    IF t = 1
    THEN [weighted |-> vals[1], old_wt |-> One,
          nobs |-> IF vals[1] # NaN THEN 1 ELSE 0]
    ELSE LET prev    == EwmState(vals, alpha, t - 1)
             cur     == vals[t]
             nobs    == prev.nobs + (IF cur # NaN THEN 1 ELSE 0)
             decayed == RMul(prev.old_wt, RSub(One, alpha))
         IN  IF prev.weighted # NaN
             THEN IF cur # NaN
                  THEN [weighted |->
                            IF prev.weighted # cur
                            THEN FDiv(FAdd(FMul(decayed, prev.weighted),
                                           FMul(alpha, cur)),
                                      RAdd(decayed, alpha))
                            ELSE prev.weighted,
                        old_wt |-> One,
                        nobs |-> nobs]
                  ELSE [weighted |-> prev.weighted, old_wt |-> decayed,
                        nobs |-> nobs]
             ELSE IF cur # NaN
                  THEN [weighted |-> cur, old_wt |-> prev.old_wt, nobs |-> nobs]
                  ELSE [weighted |-> NaN, old_wt |-> prev.old_wt, nobs |-> nobs]

\* Series.ewm(alpha=alpha, adjust=False, min_periods=min_periods).mean();
\* the kernel uses max(min_periods, 1)
EwmMean(vals, alpha, min_periods) ==
    [t \in 1..Len(vals) |->
        LET s == EwmState(vals, alpha, t)
        IN  IF s.nobs >= (IF min_periods > 1 THEN min_periods ELSE 1)
            THEN s.weighted ELSE NaN]

\* the columns of the candle series
CloseOf(cs) == [t \in 1..Len(cs) |-> cs[t].close]
HighOf(cs)  == [t \in 1..Len(cs) |-> cs[t].high]
LowOf(cs)   == [t \in 1..Len(cs) |-> cs[t].low]

\* alpha = 1.0 / period
WilderAlpha(p) == Frac(1, p)

\* mutant: the losses keep their negative sign
LossNotNegated(close) ==
    LET delta == Diff(close)
    IN  [t \in 1..Len(close) |-> IF FLt(delta[t], Zero) THEN delta[t] ELSE Zero]

\* gain = delta.where(delta > 0, 0)
Gain(close) ==
    LET delta == Diff(close)
    IN  [t \in 1..Len(close) |-> IF FGt(delta[t], Zero) THEN delta[t] ELSE Zero]

\* loss = -delta.where(delta < 0, 0)
Loss(close) ==
    LET delta == Diff(close)
    IN  [t \in 1..Len(close) |->
            FNeg(IF FLt(delta[t], Zero) THEN delta[t] ELSE Zero)]

AvgGain(close, p) == EwmMean(Gain(close), WilderAlpha(p), p)

AvgLoss(close, p) == EwmMean(Loss(close), WilderAlpha(p), p)

\* rs = avg_gain / avg_loss.replace(0, float('inf'))
RelativeStrength(close, p) ==
    LET avg_gain == AvgGain(close, p)
        divisor  == ReplaceZeroByInf(AvgLoss(close, p))
    IN  [t \in 1..Len(close) |-> FDiv(avg_gain[t], divisor[t])]

\* rsi = 100 - (100 / (1 + rs))
calculate_rsi(close, p) ==
    LET rs == RelativeStrength(close, p)
    IN  [t \in 1..Len(close) |->
            FSub(Hundred, FDiv(Hundred, FAdd(One, rs[t])))]

\* mutant: the EMA waits for period samples like the Wilder averages
calculate_ema_min_periods(close, p) == EwmMean(close, Frac(2, p + 1), p)

\* ema = close.ewm(span=period, adjust=False).mean(); alpha = 2 / (span + 1)
calculate_ema(close, p) == EwmMean(close, Frac(2, p + 1), 0)

\* max(axis=1) of a row of the three ranges, NaN entries skipped
RowMax(a, b, c) ==
    LET m2(x, y) == IF x = NaN THEN y ELSE IF y = NaN THEN x
                    ELSE IF RLt(x, y) THEN y ELSE x
    IN  m2(m2(a, b), c)

\* true_range = pd.concat([tr1, tr2, tr3], axis=1).max(axis=1)
TrueRange(cs) ==
    LET prev == Shift(CloseOf(cs))
    IN  [t \in 1..Len(cs) |->
            RowMax(FSub(cs[t].high, cs[t].low),
                   FAbs(FSub(prev[t], cs[t].high)),
                   FAbs(FSub(prev[t], cs[t].low)))]

\* atr = true_range.ewm(alpha=alpha, adjust=False, min_periods=period).mean()
calculate_atr(cs, p) == EwmMean(TrueRange(cs), WilderAlpha(p), p)

\* plus_dm = high.diff(); plus_dm[plus_dm < 0] = 0
PlusDm(cs) ==
    LET d == Diff(HighOf(cs))
    IN  [t \in 1..Len(cs) |-> IF FLt(d[t], Zero) THEN Zero ELSE d[t]]

\* minus_dm = -low.diff(); minus_dm[minus_dm < 0] = 0
MinusDm(cs) ==
    LET d == Diff(LowOf(cs))
    IN  [t \in 1..Len(cs) |-> IF FLt(FNeg(d[t]), Zero) THEN Zero ELSE FNeg(d[t])]

\* 100 * (dm.ewm(alpha=alpha, adjust=False, min_periods=period).mean() / atr)
DirectionalIndex(dm, cs, p) ==
    LET smoothed == EwmMean(dm, WilderAlpha(p), p)
        atr      == calculate_atr(cs, p)
    IN  [t \in 1..Len(cs) |-> FMul(Hundred, FDiv(smoothed[t], atr[t]))]

\* dx = (plus_di - minus_di).abs() / (plus_di + minus_di).replace(0, inf) * 100
Dx(cs, p) ==
    LET plus_di  == DirectionalIndex(PlusDm(cs), cs, p)
        minus_di == DirectionalIndex(MinusDm(cs), cs, p)
        total    == ReplaceZeroByInf([t \in 1..Len(cs) |->
                                         FAdd(plus_di[t], minus_di[t])])
    IN  [t \in 1..Len(cs) |->
            FMul(FDiv(FAbs(FSub(plus_di[t], minus_di[t])), total[t]), Hundred)]

\* adx = dx.ewm(alpha=alpha, adjust=False, min_periods=period).mean()
calculate_adx(cs, p) == EwmMean(Dx(cs, p), WilderAlpha(p), p)

\* price levels of the candles
Levels == {1, 2}

\* candles with low <= close <= high
CandleShapes ==
    { c \in [high : Levels, low : Levels, close : Levels] :
        c.low <= c.close /\ c.close <= c.high }

CandleSeries(n, shapes) ==
    [t \in 1..n |-> [high  |-> Rat(shapes[t].high),
                     low   |-> Rat(shapes[t].low),
                     close |-> Rat(shapes[t].close)]]

InitIndicators ==
    /\ BacktesterIdle
    /\ StrategyIdle
    /\ ExecutorIdle
    /\ BotIdle
    /\ \E n \in 1..MaxSeries : \E shapes \in [1..n -> CandleShapes] :
           candles = CandleSeries(n, shapes)
    /\ period \in 1..MaxPeriod
    /\ ind = [name |-> "none", values |-> <<>>]

CalcRsi ==
    /\ ind.name = "none"
    /\ ind' = [name |-> "rsi", values |-> calculate_rsi(CloseOf(candles), period)]
    /\ UNCHANGED <<backtestVars, strategyVars, candles, period, executorVars,
                   botVars>>

CalcEma ==
    /\ ind.name = "none"
    /\ ind' = [name |-> "ema", values |-> calculate_ema(CloseOf(candles), period)]
    /\ UNCHANGED <<backtestVars, strategyVars, candles, period, executorVars,
                   botVars>>

CalcAtr ==
    /\ ind.name = "none"
    /\ ind' = [name |-> "atr", values |-> calculate_atr(candles, period)]
    /\ UNCHANGED <<backtestVars, strategyVars, candles, period, executorVars,
                   botVars>>

CalcAdx ==
    /\ ind.name = "none"
    /\ ind' = [name |-> "adx", values |-> calculate_adx(candles, period)]
    /\ UNCHANGED <<backtestVars, strategyVars, candles, period, executorVars,
                   botVars>>

NextIndicators ==
    \/ CalcRsi
    \/ CalcEma
    \/ CalcAtr
    \/ CalcAdx

SpecIndicators == InitIndicators /\ [][NextIndicators]_vars

\* ------------------------------------------------------------------------
\* OrderExecutor (executor.py)
\* ------------------------------------------------------------------------
MaxExecutions == 2

\* a Python str
Str(s) == [kind |-> "str", value |-> s]

Symbols == {Str("XRP/KRW"), Str("BTC/KRW")}
Sides   == {"buy", "sell"}
Amounts == {1, 2}
CurrentPrices == {10, 20}

\* what exchange.create_order does: it returns the order, or raises
ExchangeOutcomes == {"filled", "InsufficientFunds", "InvalidOrder", "Exception"}

InitExecutor ==
    /\ BacktesterIdle
    /\ StrategyIdle
    /\ IndicatorIdle
    /\ BotIdle
    /\ dry_run \in BOOLEAN
    /\ exchange_orders = <<>>
    /\ order = None
    /\ executions = <<>>

\* mutant: the mode test is inverted
UsesMockOrderInverted == ~dry_run

\* if self.dry_run:
UsesMockOrder == dry_run

\* the dict returned in dry-run mode
MockOrder(side, amount, current_price) ==
    [kind   |-> "order",
     status |-> "closed",
     side   |-> side,
     amount |-> amount,
     price  |-> current_price,
     info   |-> "This is a dry run mock order"]

\* the keyword arguments of self.exchange.create_order
CreateOrderCall(symbol, side, amount) ==
    [symbol |-> symbol, type |-> "market", side |-> side, amount |-> amount]

\* order_result, as the exchange returns it
OrderResult(symbol, side, amount) ==
    [kind   |-> "order",
     id     |-> Len(exchange_orders) + 1,
     symbol |-> symbol,
     type   |-> "market",
     side   |-> side,
     amount |-> amount]

ExecuteTradeArgs(symbol, side, amount, current_price) ==
    [symbol |-> symbol, side |-> side, amount |-> amount,
     current_price |-> current_price]

\* execute_trade in dry-run mode: lines 67-75
ExecuteTradeDryRun ==
    /\ Len(executions) < MaxExecutions
    /\ UsesMockOrder
    /\ \E symbol \in Symbols, side \in Sides, amount \in Amounts,
          current_price \in CurrentPrices :
           /\ executions' = Append(executions,
                  ExecuteTradeArgs(symbol, side, amount, current_price))
           /\ order' = MockOrder(side, amount, current_price)
    /\ UNCHANGED <<dry_run, exchange_orders>>
    /\ UNCHANGED <<backtestVars, strategyVars, indicatorVars, botVars>>

\* execute_trade in live mode, create_order returns: lines 78-87
ExecuteTradeLive ==
    /\ Len(executions) < MaxExecutions
    /\ ~UsesMockOrder
    /\ \E symbol \in Symbols, side \in Sides, amount \in Amounts,
          current_price \in CurrentPrices :
           /\ executions' = Append(executions,
                  ExecuteTradeArgs(symbol, side, amount, current_price))
           /\ exchange_orders' = Append(exchange_orders,
                  CreateOrderCall(symbol, side, amount))
           /\ order' = OrderResult(symbol, side, amount)
    /\ UNCHANGED dry_run
    /\ UNCHANGED <<backtestVars, strategyVars, indicatorVars, botVars>>

\* execute_trade in live mode, create_order raises: lines 78-96
ExecuteTradeLiveFails ==
    /\ Len(executions) < MaxExecutions
    /\ ~UsesMockOrder
    /\ \E symbol \in Symbols, side \in Sides, amount \in Amounts,
          current_price \in CurrentPrices :
           /\ executions' = Append(executions,
                  ExecuteTradeArgs(symbol, side, amount, current_price))
           /\ exchange_orders' = Append(exchange_orders,
                  CreateOrderCall(symbol, side, amount))
    /\ \E outcome \in ExchangeOutcomes \ {"filled"} : order' = None
    /\ UNCHANGED dry_run
    /\ UNCHANGED <<backtestVars, strategyVars, indicatorVars, botVars>>

NextExecutor ==
    \/ ExecuteTradeDryRun
    \/ ExecuteTradeLive
    \/ ExecuteTradeLiveFails

SpecExecutor == InitExecutor /\ [][NextExecutor]_vars

\* ------------------------------------------------------------------------
\* run_bot (main.py)
\*
\* fetcher, strategy and executor are free names of main.py: what they
\* return, and whether a call of them raises, is the environment's choice.
\* run_bot catches no exception, so a call that raises ends the loop.  The
\* calls executor.execute_trade(symbol, side, ...) pass three arguments; an
\* OrderExecutor's execute_trade needs four and raises TypeError on them.
\* ------------------------------------------------------------------------
MaxCycles == 4

\* candidate_symbols: lists of distinct symbols
CandidateLists ==
    {<<>>} \cup { <<a>> : a \in Symbols }
           \cup { c \in { <<a, b>> : a \in Symbols, b \in Symbols } :
                      c[1] # c[2] }

\* values of strategy.get_performance_score
Scores == {Rat(-100), Zero, Rat(1), Rat(2), NaN}

\* best_score = -9999
BestScoreInit == Rat(-9999)

\* lines 62-73: the scan over the first k candidates
RECURSIVE Best(_, _, _)
Best(candidate_symbols, score, k) ==
    IF k = 0
    THEN [best_symbol |-> None, best_score |-> BestScoreInit]
    ELSE LET prev == Best(candidate_symbols, score, k - 1)
             sym  == candidate_symbols[k]
         IN  IF FGt(score[sym], prev.best_score)
             THEN [best_symbol |-> sym, best_score |-> score[sym]]
             ELSE prev

\* if best_symbol and best_score > 0
ShouldBuy(best) == best.best_symbol # None /\ FGt(best.best_score, Zero)

\* mutant: the scan branch is taken in every cycle
ScanningAlways == TRUE

\* if current_holding_symbol is None
Scanning == current_holding_symbol = None

\* what a call of executor.execute_trade that returns can return: an order
\* (executor.py lines 69-75 and 87) or None (line 96)
TradeResults(symbol, side) ==
    {[kind |-> "order", symbol |-> symbol, side |-> side], None}

\* the record of one order request
Request(symbol, side, result) ==
    [cycle |-> cycle, symbol |-> symbol, side |-> side, result |-> result]

InitBot ==
    /\ BacktesterIdle
    /\ StrategyIdle
    /\ IndicatorIdle
    /\ ExecutorIdle
    /\ current_holding_symbol = None
    /\ cycle = 1
    /\ bpc = "running"
    /\ requests = <<>>

\* a cycle of the scan branch that buys nothing: lines 57-76, 92
ScanNoBuy ==
    /\ bpc = "running"
    /\ cycle <= MaxCycles
    /\ Scanning
    /\ \E candidate_symbols \in CandidateLists, score \in [Symbols -> Scores] :
           ~ShouldBuy(Best(candidate_symbols, score, Len(candidate_symbols)))
    /\ cycle' = cycle + 1
    /\ UNCHANGED <<current_holding_symbol, bpc, requests>>
    /\ UNCHANGED <<backtestVars, strategyVars, indicatorVars, executorVars>>

\* a cycle of the scan branch that buys the best symbol: lines 57-78, 92
ScanBuy ==
    /\ bpc = "running"
    /\ cycle <= MaxCycles
    /\ Scanning
    /\ \E candidate_symbols \in CandidateLists, score \in [Symbols -> Scores] :
           LET best == Best(candidate_symbols, score, Len(candidate_symbols))
           IN  /\ ShouldBuy(best)
               /\ \E result \in TradeResults(best.best_symbol, "buy") :
                      requests' = Append(requests,
                          Request(best.best_symbol, "buy", result))
               /\ current_holding_symbol' = best.best_symbol
    /\ cycle' = cycle + 1
    /\ UNCHANGED bpc
    /\ UNCHANGED <<backtestVars, strategyVars, indicatorVars, executorVars>>

\* a cycle of the watch branch without a sell signal: lines 80-87, 92
WatchHold ==
    /\ bpc = "running"
    /\ cycle <= MaxCycles
    /\ ~Scanning
    /\ \E sell_signal \in {0, 1} : sell_signal # 1
    /\ cycle' = cycle + 1
    /\ UNCHANGED <<current_holding_symbol, bpc, requests>>
    /\ UNCHANGED <<backtestVars, strategyVars, indicatorVars, executorVars>>

\* a cycle of the watch branch that sells the held symbol: lines 80-89, 92
WatchSell ==
    /\ bpc = "running"
    /\ cycle <= MaxCycles
    /\ ~Scanning
    /\ \E sell_signal \in {0, 1} : sell_signal = 1
    /\ \E result \in TradeResults(current_holding_symbol, "sell") :
           requests' = Append(requests,
               Request(current_holding_symbol, "sell", result))
    /\ current_holding_symbol' = None
    /\ cycle' = cycle + 1
    /\ UNCHANGED bpc
    /\ UNCHANGED <<backtestVars, strategyVars, indicatorVars, executorVars>>

\* a call of fetcher, strategy or executor raises (execute_trade included,
\* before it returns anything): the exception leaves run_bot
CycleRaises ==
    /\ bpc = "running"
    /\ cycle <= MaxCycles
    /\ bpc' = "crashed"
    /\ UNCHANGED <<current_holding_symbol, cycle, requests>>
    /\ UNCHANGED <<backtestVars, strategyVars, indicatorVars, executorVars>>

NextBot ==
    \/ ScanNoBuy
    \/ ScanBuy
    \/ WatchHold
    \/ WatchSell
    \/ CycleRaises

SpecBot == InitBot /\ [][NextBot]_vars

\* ------------------------------------------------------------------------
\* Properties
\* ------------------------------------------------------------------------
Returned == pc = "done"

InLoopBody == pc = "loop" /\ i <= Len(df)

AfterLoop == pc = "loop" /\ i > Len(df)

\* C1: after run returns the simulator is FLAT (position_size is 0), also
\* when the position was closed by the end-of-data forced liquidation.
C1_FlatAfterRun == Returned => position_size = Zero

\* C2: after run returns the number of Trade records equals the number of
\* FLAT->LONG entries made during the run, also when the last position is
\* closed by the end-of-data forced liquidation.
C2_TradesMatchEntries == Returned => Len(trades) = entries

\* C3: inside the loop the equity curve has one sample per processed candle
\* (k samples after the k-th candle), and after run returns its length is the
\* length of the input, whether or not forced liquidation happened.
C3_EquityLength ==
    /\ pc = "loop" => Len(equity_curve) = i - 1
    /\ Returned => Len(equity_curve) = Len(df)

\* a run that ended with a forced liquidation over at least two candles
C3_Witness ==
    /\ Returned
    /\ RGt(position_size, Zero)
    /\ Len(df) >= 2
    /\ Len(equity_curve) = Len(df)

\* C4: every Trade has entry_time < exit_time, consecutive Trades do not
\* overlap (exit of the earlier <= entry of the later), and no entry happens
\* while a position is open.
C4_TradesOrdered ==
    /\ \A k \in 1..Len(trades) : trades[k].entry_time < trades[k].exit_time
    /\ \A k \in 1..(Len(trades) - 1) :
           trades[k].exit_time <= trades[k + 1].entry_time

C4_NoEntryWhileOpen == entries' > entries => position_size = Zero

C4_SinglePosition == []C4_TradesOrdered /\ [][C4_NoEntryWhileOpen]_vars

\* two complete trades were logged
C4_Witness ==
    /\ Len(trades) >= 2
    /\ trades[1].exit_time <= trades[2].entry_time

\* the two transitions of the account, seen on a step of the loop
EntryFired == position_size = Zero /\ RGt(position_size', Zero)

ExitFired == RGt(position_size, Zero) /\ position_size' = Zero

\* C5: on a candle the FLAT->LONG transition fires exactly when
\* buy_signal = 1, position_size = 0 and balance >= trade_amount; it takes the
\* full trade_amount from balance and sets position_size to
\* trade_amount * (1 - fee_rate) / close, entry_price to close and entry_time
\* to the candle's time.
C5_EntryStep ==
    InLoopBody =>
        /\ EntryFired <=> /\ df[i].buy_signal = 1
                          /\ position_size = Zero
                          /\ ~RLt(balance, trade_amount)
        /\ EntryFired =>
              /\ RAdd(balance', trade_amount) = balance
              /\ position_size' =
                     RDiv(RMul(trade_amount, RSub(One, fee_rate)), df[i].close)
              /\ entry_price' = df[i].close
              /\ entry_time' = df[i].datetime

C5_Entry == [][C5_EntryStep]_vars

\* the state right after an entry on the previous candle
C5_Witness ==
    /\ pc = "loop"
    /\ i > 1
    /\ entry_time = df[i - 1].datetime
    /\ RGt(position_size, Zero)
    /\ df[i - 1].buy_signal = 1

\* C6: a candle with buy_signal = 1 while FLAT with balance < trade_amount
\* changes neither balance, position_size nor the trade log; only the equity
\* sample is appended and the account stays FLAT.
C6_NoEntryStep ==
    (/\ InLoopBody
     /\ df[i].buy_signal = 1
     /\ position_size = Zero
     /\ RLt(balance, trade_amount)) =>
        /\ balance' = balance
        /\ position_size' = Zero
        /\ trades' = trades
        /\ entries' = entries
        /\ Len(equity_curve') = Len(equity_curve) + 1

C6_InsufficientBalance == [][C6_NoEntryStep]_vars

\* a buy signal was just processed with too little cash and nothing happened
C6_Witness ==
    /\ pc = "loop"
    /\ i > 1
    /\ df[i - 1].buy_signal = 1
    /\ entries = 0
    /\ position_size = Zero
    /\ RLt(balance, trade_amount)
    /\ Len(equity_curve) = i - 1

\* C7: on a candle the LONG->FLAT transition fires exactly when
\* sell_signal = 1 and a position is open; it credits balance with
\* position_size * close * (1 - fee_rate), appends one Trade carrying the
\* stored entry time/price, this candle's time/price, profit_amount = net
\* proceeds - trade_amount and profit_pct = profit_amount / trade_amount * 100,
\* and resets position_size to 0.
C7_NetProceeds ==
    RMul(RMul(position_size, df[i].close), RSub(One, fee_rate))

C7_ExitStep ==
    InLoopBody =>
        /\ ExitFired <=> (df[i].sell_signal = 1 /\ RGt(position_size, Zero))
        /\ ExitFired =>
              /\ balance' = RAdd(balance, C7_NetProceeds)
              /\ Len(trades') = Len(trades) + 1
              /\ \A k \in 1..Len(trades) : trades'[k] = trades[k]
              /\ LET t == trades'[Len(trades')]
                 IN  /\ t.entry_time = entry_time
                     /\ t.entry_price = entry_price
                     /\ t.exit_time = df[i].datetime
                     /\ t.exit_price = df[i].close
                     /\ RAdd(t.profit_amount, trade_amount) = C7_NetProceeds
                     /\ RMul(t.profit_pct, trade_amount) =
                            RMul(t.profit_amount, Hundred)
        /\ ~ExitFired => trades' = trades

C7_Exit == [][C7_ExitStep]_vars

\* the state right after an exit on the previous candle
C7_Witness ==
    /\ pc = "loop"
    /\ i > 1
    /\ Len(trades) >= 1
    /\ trades[Len(trades)].exit_time = df[i - 1].datetime
    /\ position_size = Zero

\* C8: when the candle sequence ends with a position open, balance is
\* credited with position_size * final_close * (1 - fee_rate) and only the
\* last equity sample is overwritten, with the resulting balance; with no
\* position open neither balance nor the equity curve is touched.
C8_EndOfDataStep ==
    AfterLoop =>
        IF RGt(position_size, Zero)
        THEN /\ balance' =
                   RAdd(balance,
                        RMul(RMul(position_size, df[Len(df)].close),
                             RSub(One, fee_rate)))
             /\ Len(equity_curve') = Len(equity_curve)
             /\ equity_curve'[Len(equity_curve')] = balance'
             /\ \A k \in 1..(Len(equity_curve) - 1) :
                    equity_curve'[k] = equity_curve[k]
        ELSE /\ balance' = balance
             /\ equity_curve' = equity_curve

C8_ForcedLiquidation == [][C8_EndOfDataStep]_vars

\* a run of several candles ended by a forced liquidation at a final close
\* different from the first close
C8_Witness ==
    /\ Returned
    /\ RGt(position_size, Zero)
    /\ Len(equity_curve) >= 2
    /\ equity_curve[Len(equity_curve)] = balance
    /\ df[1].close # df[Len(df)].close

\* C9: the k-th equity sample is balance + position_size * close_k with the
\* balance and position carried over from candle k-1, i.e. it is taken before
\* candle k's signals are evaluated; the sample of the entry candle is
\* therefore the cash held before the entry.
C9_SampleStep ==
    InLoopBody =>
        /\ Len(equity_curve') = i
        /\ equity_curve'[i] = RAdd(balance, RMul(position_size, df[i].close))
        /\ \A k \in 1..(i - 1) : equity_curve'[k] = equity_curve[k]

C9_EntrySample ==
    (pc = "loop" /\ RGt(position_size, Zero)) =>
        \E k \in 1..Len(equity_curve) :
            /\ df[k].datetime = entry_time
            /\ equity_curve[k] = RAdd(balance, trade_amount)

C9_MarkBeforeTrade == []C9_EntrySample /\ [][C9_SampleStep]_vars

\* a position was entered and the next candle's sample, which reflects the
\* entry, differs from the sample of the entry candle
C9_Witness ==
    /\ pc = "loop"
    /\ RGt(position_size, Zero)
    /\ \E k \in 1..(Len(equity_curve) - 1) :
           /\ df[k].datetime = entry_time
           /\ equity_curve[k + 1] # equity_curve[k]

\* C10: on a candle with buy_signal = 1 and sell_signal = 1 the buy is
\* executed and no sell happens while FLAT with sufficient balance, and the
\* sell is executed and the buy is a no-op while LONG; no candle performs
\* both transitions.
C10_BothSignalsStep ==
    InLoopBody =>
        /\ (df[i].buy_signal = 1 /\ df[i].sell_signal = 1) =>
              /\ (position_size = Zero /\ ~RLt(balance, trade_amount)) =>
                     /\ EntryFired
                     /\ entries' = entries + 1
                     /\ trades' = trades
              /\ RGt(position_size, Zero) =>
                     /\ ExitFired
                     /\ Len(trades') = Len(trades) + 1
                     /\ entries' = entries
                     /\ entry_time' = entry_time
                     /\ entry_price' = entry_price
        /\ ~(entries' # entries /\ trades' # trades)

C10_TieBreak == [][C10_BothSignalsStep]_vars

\* an exit was just executed on a candle that carried both signals
C10_Witness ==
    /\ pc = "loop"
    /\ i > 1
    /\ df[i - 1].buy_signal = 1
    /\ df[i - 1].sell_signal = 1
    /\ Len(trades) >= 1
    /\ trades[Len(trades)].exit_time = df[i - 1].datetime

\* C11: run on an empty candle sequence does not crash: it completes and
\* reports that no trades were executed, with balance = initial_balance, an
\* empty trade log and an empty equity curve.
C11_EmptyRunCompletes ==
    (Len(df) = 0 /\ pc # "init") =>
        /\ Returned
        /\ report.kind = "no_trades"
        /\ balance = initial_balance
        /\ trades = <<>>
        /\ equity_curve = <<>>

\* C12: with an empty trade log the reporter yields the 'no trades' result
\* and computes nothing else (no division by total_trades = 0); with
\* total_trades > 0 win_rate is count(profit_pct > 0) / total_trades * 100,
\* a value in [0, 100].
C12_Winners == Cardinality({ k \in 1..Len(trades) : trades[k].profit_pct.n > 0 })

C12_WinRate ==
    Returned =>
        IF Len(trades) = 0
        THEN report = [kind |-> "no_trades"]
        ELSE /\ report.kind = "summary"
             /\ report.total_trades = Len(trades)
             /\ RMul(report.win_rate, Rat(Len(trades))) = Rat(100 * C12_Winners)
             /\ RLe(Zero, report.win_rate)
             /\ RLe(report.win_rate, Hundred)

\* a run over several candles in which no trade was closed
C12_Witness ==
    /\ Returned
    /\ Len(df) >= 2
    /\ Len(trades) = 0
    /\ report.kind = "no_trades"

\* C13: the max drawdown of the equity curve of a run is <= 0, and it is 0
\* exactly when the equity curve is non-decreasing.
C13_NonDecreasing(eq) ==
    \A k \in 1..(Len(eq) - 1) : RLe(eq[k], eq[k + 1])

C13_MaxDrawdown ==
    Returned =>
        /\ RLe(Mdd(equity_curve), Zero)
        /\ Mdd(equity_curve) = Zero <=> C13_NonDecreasing(equity_curve)
        /\ report.kind = "summary" => report.mdd = Mdd(equity_curve)

\* a reported run whose equity rose above its start and then fell back, but
\* not below the start
C13_Witness ==
    /\ Returned
    /\ report.kind = "summary"
    /\ RLt(report.mdd, Zero)
    /\ \A k \in 1..Len(equity_curve) : RLe(equity_curve[1], equity_curve[k])

\* C14: every invocation of run owns an independent account state: a run on
\* a Backtester that has run before starts FLAT with balance =
\* initial_balance and an empty trade log and equity curve.
C14_RunStartsFresh ==
    pc = "init" =>
        /\ balance = initial_balance
        /\ position_size = Zero
        /\ trades = <<>>
        /\ equity_curve = <<>>

\* C15: buy_signal is 1 exactly on the rows with ema_short > ema_long,
\* adx > 25 and rsi < 40 (strict), else 0; sell_signal is 1 exactly on the
\* rows with rsi > 70 or ema_short < ema_long, else 0; each depends on its
\* own row only.
C15_Greater(x, y) == x.d # 0 /\ y.d # 0 /\ x.n * y.d > y.n * x.d

C16_SomeRowHasBoth ==
    (spc = "done" /\ Len(sdf.rows) = GridSize) =>
        \E k \in 1..Len(sdf.rows) :
            /\ sdf.rows[k]["buy_signal"] = 1
            /\ sdf.rows[k]["sell_signal"] = 1

\* C16 (amended): the two rules exclude each other: no row carries
\* buy_signal = 1 and sell_signal = 1 after analyze.
C16_MutuallyExclusive ==
    spc = "done" =>
        \A k \in 1..Len(sdf.rows) :
            ~(sdf.rows[k]["buy_signal"] = 1 /\ sdf.rows[k]["sell_signal"] = 1)

\* analyze finished on the frame of all combinations, which has rows with a
\* buy signal and rows with a sell signal
C16_Witness ==
    /\ spc = "done"
    /\ Len(sdf.rows) = GridSize
    /\ \E k \in 1..Len(sdf.rows) : sdf.rows[k]["buy_signal"] = 1
    /\ \E k \in 1..Len(sdf.rows) : sdf.rows[k]["sell_signal"] = 1

\* C17: rows with an undefined indicator are dropped before signal
\* generation: once populate_indicators has run, the frame carries
\* ema_short, ema_long, rsi, adx and atr, and none of them is undefined on
\* any row that signal generation (and the simulator) sees.
C17_UndefinedRowsDropped ==
    spc \in {"indicators", "entry", "done", "crashed"} =>
        /\ IndicatorCols \subseteq sdf.cols
        /\ \A k \in 1..Len(sdf.rows) :
               \A c \in IndicatorCols : sdf.rows[k][c] # NaN

\* C18: in calculate_rsi, when the smoothed average loss is 0 at a defined
\* index, the RSI value at that index is 100.
C18_ZeroLossGives100 ==
    ind.name = "rsi" =>
        \A t \in 1..Len(ind.values) :
            AvgLoss(CloseOf(candles), period)[t] = Zero => ind.values[t] = Hundred

\* C19: every defined value of the RSI series lies in the closed interval
\* [0, 100], for every price series and every period >= 1.
C19_RsiRange ==
    ind.name = "rsi" =>
        \A t \in 1..Len(ind.values) :
            ind.values[t] # NaN =>
                /\ IsFinite(ind.values[t])
                /\ RGe(ind.values[t], Zero)
                /\ RLe(ind.values[t], Hundred)

\* an RSI series with a defined value strictly inside the interval and a
\* defined value on its lower end
C19_Witness ==
    /\ ind.name = "rsi"
    /\ \E t \in 1..Len(ind.values) :
           /\ ind.values[t] # NaN
           /\ RGt(ind.values[t], Zero)
           /\ RLt(ind.values[t], Hundred)
    /\ \E t \in 1..Len(ind.values) : ind.values[t] = Zero

\* the indicator has been computed over at least period candles
Computed(name) == ind.name = name /\ Len(candles) >= period

\* entry t (counted from 1) of the computed series is undefined
Undefined(t) == ind.values[t] = NaN

\* C20 as stated: each derived indicator series (EMA, RSI, ATR, ADX computed
\* with period p over n >= p candles) has the length of the input and is
\* undefined exactly on its first p-1 entries.
C20_WarmUpWindow ==
    (ind.name # "none" /\ Len(candles) >= period) =>
        /\ Len(ind.values) = Len(candles)
        /\ \A t \in 1..Len(ind.values) : Undefined(t) <=> t <= period - 1

\* C20 amended: each derived series has the length of the input; RSI and ATR
\* are undefined exactly on their first p-1 entries; EMA is defined at every
\* entry; ADX is undefined on its first 2p-1 entries and defined at every
\* later entry up to which the ATR has been non-zero from index p on.
C20_WarmUpPerIndicator ==
    /\ (ind.name # "none" /\ Len(candles) >= period) =>
           Len(ind.values) = Len(candles)
    /\ (Computed("rsi") \/ Computed("atr")) =>
           \A t \in 1..Len(ind.values) : Undefined(t) <=> t <= period - 1
    /\ Computed("ema") =>
           \A t \in 1..Len(ind.values) : ~Undefined(t)
    /\ Computed("adx") =>
           \A t \in 1..Len(ind.values) :
               /\ t <= 2 * period - 1 => Undefined(t)
               /\ ( /\ t >= 2 * period
                    /\ \A s \in (period + 1)..t :
                           calculate_atr(candles, period)[s] # Zero )
                  => ~Undefined(t)

\* an ADX series of period 2 whose first three entries are undefined and whose
\* fourth entry is defined
C20_Witness ==
    /\ Computed("adx")
    /\ period = 2
    /\ Len(ind.values) >= 4
    /\ Undefined(3)
    /\ ~Undefined(4)

\* the change of balance over one entry at p0 and one exit at p1:
\* trade_amount * ((1 - fee_rate)^2 * p1 / p0 - 1)
C21_RoundTripDelta(p0, p1) ==
    RMul(trade_amount,
         RSub(RDiv(RMul(RMul(RSub(One, fee_rate), RSub(One, fee_rate)), p1),
                   p0),
              One))

\* exactly one entry so far, closed by an exit on a sell signal
C21_OneRoundTrip == entries = 1 /\ position_size = Zero

\* the exit of a position entered at 100 on a candle closing at 110 credits
\* the net revenue 109.78011
C21_ExitStep ==
    (InLoopBody /\ ExitFired
        /\ entry_price = Rat(100) /\ df[i].close = Rat(110)) =>
        balance' = RAdd(balance, Frac(10978011, 100000))

\* C21: with trade_amount = 100 and fee_rate = 0.001, an entry at close 100
\* followed by an exit at close 110 gives position_size 0.999, net revenue
\* 109.78011, profit_amount and profit_pct 9.78011, a final balance of
\* initial_balance + 9.78011 and exactly one logged Trade; in general one
\* entry at p0 and exit at p1 changes balance by
\* trade_amount * ((1 - fee_rate)^2 * p1 / p0 - 1).
C21_RoundTrip ==
    /\ [](/\ (RGt(position_size, Zero) /\ entry_price = Rat(100)) =>
                 position_size = Frac(999, 1000)
          /\ \A k \in 1..Len(trades) :
                 (trades[k].entry_price = Rat(100)
                     /\ trades[k].exit_price = Rat(110)) =>
                     /\ trades[k].profit_amount = Frac(978011, 100000)
                     /\ trades[k].profit_pct = Frac(978011, 100000)
          /\ C21_OneRoundTrip =>
                 /\ Len(trades) = 1
                 /\ balance = RAdd(initial_balance,
                                   C21_RoundTripDelta(trades[1].entry_price,
                                                      trades[1].exit_price))
                 /\ (trades[1].entry_price = Rat(100)
                        /\ trades[1].exit_price = Rat(110)) =>
                        balance = RAdd(initial_balance, Frac(978011, 100000)))
    /\ [][C21_ExitStep]_vars

\* a finished run with one entry at 100 and one exit at 110
C21_Witness ==
    /\ pc = "done"
    /\ C21_OneRoundTrip
    /\ Len(trades) = 1
    /\ trades[1].entry_price = Rat(100)
    /\ trades[1].exit_price = Rat(110)

\* the arguments of the latest execute_trade call
C22_LastCall == executions[Len(executions)]

\* C22: with dry_run = True execute_trade never places a real order: for
\* every symbol, side and amount it returns a mock order with status
\* 'closed' echoing side, amount and price, and exchange.create_order is
\* never called; create_order is reachable only when dry_run is False.
C22_DryRunPlacesNoOrder ==
    /\ dry_run =>
           /\ exchange_orders = <<>>
           /\ executions # <<>> =>
                  /\ order.kind = "order"
                  /\ order.status = "closed"
                  /\ order.side = C22_LastCall.side
                  /\ order.amount = C22_LastCall.amount
                  /\ order.price = C22_LastCall.current_price
    /\ exchange_orders # <<>> => ~dry_run

\* a dry-run executor that has answered a sell after a buy
C22_Witness ==
    /\ dry_run
    /\ Len(executions) = 2
    /\ executions[1].side = "buy"
    /\ executions[2].side = "sell"
    /\ order.kind = "order"
    /\ order.side = "sell"

\* C23: cash never goes negative: for initial_balance >= 0, trade_amount > 0,
\* fee_rate in [0, 1) and positive prices, balance >= 0 and
\* position_size >= 0 hold in every state reachable during run.
C23_CashNeverNegative ==
    /\ RGe(balance, Zero)
    /\ RGe(position_size, Zero)

\* an entry that spent the whole balance
C23_Witness ==
    /\ pc = "loop"
    /\ entries >= 1
    /\ balance = Zero
    /\ RGt(position_size, Zero)

\* the sum of profit_amount over the first k Trades of the log
RECURSIVE C24_ProfitSum(_)
C24_ProfitSum(k) ==
    IF k = 0 THEN Zero ELSE RAdd(C24_ProfitSum(k - 1), trades[k].profit_amount)

\* C24: after run returns, final balance - initial_balance equals the sum of
\* profit_amount over all Trades in the log (also for runs that end with a
\* forced liquidation); a run that reports 'no trades' has final balance equal
\* to initial_balance.
C24_BalanceMatchesLog ==
    Returned =>
        /\ RSub(balance, initial_balance) = C24_ProfitSum(Len(trades))
        /\ report.kind = "no_trades" => balance = initial_balance

\* the step made an order request
C25_Requested == Len(requests') = Len(requests) + 1

C25_NewRequest == requests'[Len(requests')]

\* a buy is requested only while no symbol is held, a sell only for the
\* symbol held, and a cycle makes at most one request
C25_RequestStep ==
    /\ Len(requests') \in {Len(requests), Len(requests) + 1}
    /\ C25_Requested =>
           /\ cycle' = cycle + 1
           /\ C25_NewRequest.cycle = cycle
           /\ C25_NewRequest.side = "buy" => current_holding_symbol = None
           /\ C25_NewRequest.side = "sell" =>
                  /\ current_holding_symbol # None
                  /\ C25_NewRequest.symbol = current_holding_symbol

\* the requests alternate buy, sell, buy, ... starting with a buy, each sell
\* for the symbol of the buy before it, no two in the same cycle
C25_Alternation ==
    \A k \in 1..Len(requests) :
        /\ requests[k].side = (IF k % 2 = 1 THEN "buy" ELSE "sell")
        /\ k > 1 => requests[k - 1].cycle < requests[k].cycle
        /\ k % 2 = 0 => requests[k].symbol = requests[k - 1].symbol

\* C25: in run_bot order requests strictly alternate buy, sell, buy, ...
\* starting with a buy: a buy is requested only while no symbol is held, a
\* sell only for the symbol currently held, at most one order is requested
\* per loop cycle, and at most one symbol is held at any time.
C25_RequestsAlternate ==
    /\ [](/\ C25_Alternation
          /\ current_holding_symbol \in Symbols \cup {None})
    /\ [][C25_RequestStep]_vars

\* a buy, the sell of the symbol bought, and a buy of the other symbol
C25_Witness ==
    /\ Len(requests) = 3
    /\ requests[1].side = "buy"
    /\ requests[2].side = "sell"
    /\ requests[3].side = "buy"
    /\ requests[3].symbol # requests[1].symbol
    /\ current_holding_symbol = requests[3].symbol

\* the holding state changes only in a step whose order request returned a
\* successful order
C26_HoldingStep ==
    current_holding_symbol' # current_holding_symbol =>
        /\ Len(requests') = Len(requests) + 1
        /\ requests'[Len(requests')].result # None

\* C26: run_bot marks a symbol as held only after execute_trade returned a
\* successful order for the buy, and clears the holding only after
\* execute_trade returned a successful order for the sell; when execute_trade
\* returns None the holding state is unchanged.
C26_HoldingFollowsOrder == [][C26_HoldingStep]_vars

====
